---- MODULE Spec2Model ----
(***************************************************************************)
(* Model of the agent client of flyctl (package agent): the cancellable    *)
(* call executor Client.do, the verbs built on it, the readiness pollers,  *)
(* the tunnel dialer and the lifecycle negotiator agent.Establish.         *)
(*                                                                         *)
(* A payload is a sequence of byte groups: the protocol prefixes are       *)
(* spelled byte by byte ("o","k"," "), a JSON document is spelled by its   *)
(* brackets and one group per member, an error text by its words.          *)
(* An error is a record [kind, msg]; kind "nil" is Go's nil error.         *)
(***************************************************************************)
EXTENDS Naturals, Sequences, FiniteSets

VARIABLES
    call,    \* call[c]: the state of the call running in slot c
    parent,  \* parent[c]: Err() of the context the caller passed to slot c
    top      \* the operation that drives the slot(s), and its locals

vars == <<call, parent, top>>

\* The slots in which a call can run: "a" is the slot every operation
\* uses, "b" the slot of a second, concurrent call on the same client.
Calls == {"a", "b"}

\* Most iterations a readiness poller may make in one run of the model.
MaxProbes == 3

-----------------------------------------------------------------------------
(* Errors *)

Err(kind, msg) == [kind |-> kind, msg |-> msg]
Nil == Err("nil", <<>>)
\* context.Canceled and context.DeadlineExceeded
CtxError(e) == Err(e, <<>>)
IsCtxError(e) == e.kind \in {"Canceled", "DeadlineExceeded"}

-----------------------------------------------------------------------------
(* Payloads *)

OK == <<"o", "k">>
OKsp == <<"o", "k", " ">>
PONGsp == <<"p", "o", "n", "g", " ">>

\* The error texts, one element per byte, so that a count of elements is a
\* count of runes (%.Nq in hasPrefix keeps the first N runes)
TunnelText ==
    <<"t", "u", "n", "n", "e", "l", " ",
      "u", "n", "a", "v", "a", "i", "l", "a", "b", "l", "e">>
HostNotFoundText ==
    <<"h", "o", "s", "t", " ", "n", "o", "t", " ", "f", "o", "u", "n", "d">>
RemoteText == <<"b", "o", "o", "m">>

Versions == {"v1", "v2"}
\* buildinfo.Version() of the caller
BuildVersion == "v1"

PongPayload(v, bg) == PONGsp \o <<"{", v, bg, "}">>
EstablishPayload == OKsp \o <<"{", "st", "cf", "}">>
ResolvePayload == OKsp \o <<"10.0.0.5">>
InstancesPayload == OKsp \o <<"[", "i1", "]">>

\* What the daemon may answer to a request of each verb.
Replies(verb) ==
    CASE verb = "ping" ->
           {PongPayload(v, bg) : v \in Versions, bg \in {"bg", "fg"}} \cup {RemoteText}
      [] verb = "establish" -> {EstablishPayload, RemoteText}
      [] verb = "probe" -> {OK, TunnelText, RemoteText}
      [] verb = "resolve" -> {ResolvePayload, HostNotFoundText, TunnelText, RemoteText}
      [] verb = "instances" -> {InstancesPayload, RemoteText}
      [] verb = "connect" -> {OK, TunnelText, HostNotFoundText, RemoteText}
      [] OTHER -> {}

-----------------------------------------------------------------------------
(* Pure functions *)

Min(a, b) == IF a < b THEN a ELSE b

Take(s, n) == SubSeq(s, 1, Min(n, Len(s)))
Drop(s, n) == SubSeq(s, n + 1, Len(s))

\* strings.HasPrefix
StringsHasPrefix(data, prefix) ==
    Len(data) >= Len(prefix) /\ SubSeq(data, 1, Len(prefix)) = prefix

\* hasPrefix: nil, or "invalid prefix: %.<len(prefix)>q" of the data
hasPrefix(data, prefix) ==
    IF StringsHasPrefix(data, prefix)
    THEN Nil
    ELSE Err("InvalidPrefix", Take(data, Len(prefix)))

\* encoding/json: the document is one object / one array
JSONObject(s) == Len(s) >= 2 /\ s[1] = "{" /\ s[Len(s)] = "}"
JSONArray(s) == Len(s) >= 2 /\ s[1] = "[" /\ s[Len(s)] = "]"

\* The member of the object that is one of vals, or the field's zero value.
Member(s, vals, zero) ==
    IF \E i \in 1..Len(s) : s[i] \in vals
    THEN CHOOSE v \in vals : \E i \in 1..Len(s) : s[i] = v
    ELSE zero

SyntaxError == Err("JSONSyntax", <<>>)

\* The zero PingResponse, and json.Unmarshal into a PingResponse
ZeroPing == <<"v0", "fg">>
UnmarshalPing(s) ==
    IF JSONObject(s)
    THEN [err |-> Nil, res |-> <<Member(s, Versions, "v0"), Member(s, {"bg"}, "fg")>>]
    ELSE [err |-> SyntaxError, res |-> ZeroPing]

\* json.Unmarshal into an EstablishResponse: <<WireGuardState, TunnelConfig>>
UnmarshalEstablish(s) ==
    IF JSONObject(s)
    THEN [err |-> Nil, res |-> <<Member(s, {"st"}, "nil"), Member(s, {"cf"}, "nil")>>]
    ELSE [err |-> SyntaxError, res |-> <<>>]

\* json.Unmarshal into Instances
UnmarshalInstances(s) ==
    IF JSONArray(s)
    THEN [err |-> Nil, res |-> SubSeq(s, 2, Len(s) - 1)]
    ELSE [err |-> SyntaxError, res |-> <<>>]

-----------------------------------------------------------------------------
(* The verbs' functions fn, from the frame read to their return *)

\* Ping's fn after proto.Read: [err, res]
PingParse(data) ==
    LET e == hasPrefix(data, PONGsp) IN
    IF e = Nil THEN UnmarshalPing(Drop(data, 5)) ELSE [err |-> e, res |-> ZeroPing]

\* Establish's fn after proto.Read; the whole frame goes to json.Unmarshal
EstablishParse(data) ==
    IF hasPrefix(data, OKsp) # Nil
    THEN [err |-> Err("Text", data), res |-> <<>>]
    ELSE UnmarshalEstablish(data)

\* Probe's fn after proto.Read
ProbeParse(data) ==
    [err |-> IF data # OK THEN Err("Text", data) ELSE Nil, res |-> <<>>]

\* Resolve's fn after proto.Read
ResolveParse(data) ==
    LET e == hasPrefix(data, OKsp) IN
    [err |-> e, res |-> IF e = Nil THEN Drop(data, 3) ELSE <<>>]

\* Instances' fn after proto.Read
InstancesParse(data) ==
    LET e == hasPrefix(data, OKsp) IN
    IF e = Nil THEN UnmarshalInstances(Drop(data, 3)) ELSE [err |-> e, res |-> <<>>]

Parse(verb, data) ==
    CASE verb = "ping" -> PingParse(data)
      [] verb = "establish" -> EstablishParse(data)
      [] verb = "probe" -> ProbeParse(data)
      [] verb = "resolve" -> ResolveParse(data)
      [] verb = "instances" -> InstancesParse(data)

\* The value res has before fn assigns it
ZeroRes(verb) == IF verb = "ping" THEN ZeroPing ELSE <<>>

\* The verbs that go through Client.do, and those whose fn reads a reply
DoVerbs == {"ping", "kill", "establish", "probe", "resolve", "instances"}
ReadVerbs == DoVerbs \ {"kill"}

-----------------------------------------------------------------------------
(* The state of one call *)

IdleCall ==
    [verb |-> "none", pc |-> "idle", watcher |-> "none", worker |-> "none",
     conn |-> "none", ctx |-> "none", err |-> Nil, closeError |-> Nil,
     inbox |-> <<>>, data |-> <<>>, res |-> <<>>, sent |-> 0, opened |-> 0,
     fnRet |-> FALSE, fnErr |-> Nil, sigAtRet |-> "nil", sigAtClose |-> "none",
     handed |-> FALSE]

\* A call of verb at its first statement, before the connection is opened
NewCall(verb) == [IdleCall EXCEPT !.verb = verb, !.pc = "dial", !.res = ZeroRes(verb)]

\* context.WithCancel(parent): the child's Err() at its creation
WithCancel(p) == p

\* Mutant: the worker's cancel() does not cancel the context
CancelNoop(ctxErr) == ctxErr

\* cancel() of the child context: the first cancellation stays
Cancel(ctxErr) == IF ctxErr = "nil" THEN "Canceled" ELSE ctxErr

\* The caller's signal fires: the child context, if there is one and it is
\* not cancelled yet, is cancelled with the same error.
Propagate(ctxErr, e) == IF ctxErr = "nil" THEN e ELSE ctxErr

-----------------------------------------------------------------------------
(* Client.do *)

\* Mutant: a failed dial is tried once more before the tasks are started
DoDialAgain(c) ==
    /\ call[c].pc = "dial"
    /\ call[c].verb \in DoVerbs
    /\ \E reachable \in BOOLEAN :
         IF reachable /\ parent[c] = "nil"
         THEN call' = [call EXCEPT ![c].conn = "open",
                                   ![c].opened = @ + 1,
                                   ![c].ctx = WithCancel(parent[c]),
                                   ![c].watcher = "waiting",
                                   ![c].worker = "write",
                                   ![c].pc = "wait"]
         ELSE call' = [call EXCEPT ![c].conn = "open",
                                   ![c].opened = @ + 2,
                                   ![c].ctx = WithCancel(parent[c]),
                                   ![c].watcher = "waiting",
                                   ![c].worker = "write",
                                   ![c].pc = "wait"]
    /\ UNCHANGED <<parent, top>>

\* c.dialContext(parent): net.Dialer refuses a context that is done, and
\* the daemon may be unreachable. On success the two tasks are started.
DoDial(c) ==
    /\ call[c].pc = "dial"
    /\ call[c].verb \in DoVerbs
    /\ \E reachable \in BOOLEAN :
         IF reachable /\ parent[c] = "nil"
         THEN call' = [call EXCEPT ![c].conn = "open",
                                   ![c].opened = @ + 1,
                                   ![c].ctx = WithCancel(parent[c]),
                                   ![c].watcher = "waiting",
                                   ![c].worker = "write",
                                   ![c].pc = "wait"]
         ELSE call' = [call EXCEPT ![c].err = Err("DialError", <<>>),
                                   ![c].pc = "done"]
    /\ UNCHANGED <<parent, top>>

\* Mutant: the watcher also closes the connection when a timer of its own
\* fires, the context not being done
WatcherOwnTimeout(c) ==
    /\ call[c].watcher = "waiting"
    /\ \E ce \in {Nil, Err("CloseError", <<>>)} :
         call' = [call EXCEPT ![c].conn = "closed",
                              ![c].closeError = ce,
                              ![c].sigAtClose = parent[c],
                              ![c].watcher = "done"]
    /\ UNCHANGED <<parent, top>>

\* Mutant: the client keeps one connection for all its calls, so the watcher
\* of one call closes the connection every call in flight is using
WatcherShared(c) ==
    /\ call[c].watcher = "waiting"
    /\ call[c].ctx \in {"Canceled", "DeadlineExceeded"}
    /\ \E ce \in {Nil, Err("CloseError", <<>>)} :
         call' = [d \in Calls |->
                    IF d = c
                    THEN [call[d] EXCEPT !.conn = "closed",
                                         !.closeError = ce,
                                         !.sigAtClose = parent[c],
                                         !.watcher = "done"]
                    ELSE IF call[d].conn = "open"
                    THEN [call[d] EXCEPT !.conn = "closed"]
                    ELSE call[d]]
    /\ UNCHANGED <<parent, top>>

\* The watcher: <-ctx.Done(), then closeError = conn.Close()
Watcher(c) ==
    /\ call[c].watcher = "waiting"
    /\ call[c].ctx \in {"Canceled", "DeadlineExceeded"}
    /\ \E ce \in {Nil, Err("CloseError", <<>>)} :
         call' = [call EXCEPT ![c].conn = "closed",
                              ![c].closeError = ce,
                              ![c].sigAtClose = parent[c],
                              ![c].watcher = "done"]
    /\ UNCHANGED <<parent, top>>

\* fn has returned e: the worker assigns err and goes on to cancel()
FnReturn(cl, e, res, p) ==
    [cl EXCEPT !.err = e, !.res = res, !.fnErr = e, !.fnRet = TRUE,
               !.sigAtRet = p, !.worker = "cancel"]

\* The worker in proto.Write(conn, verb, args...)
WorkerWrite(c) ==
    /\ call[c].worker = "write"
    /\ IF call[c].conn = "closed"
       THEN call' = [call EXCEPT ![c] =
                        FnReturn(@, Err("ClosedConn", <<>>), call[c].res, parent[c])]
       ELSE \E ok \in BOOLEAN :
              IF ~ok
              THEN call' = [call EXCEPT ![c] =
                               FnReturn(@, Err("IOError", <<>>), call[c].res, parent[c])]
              ELSE IF call[c].verb \in ReadVerbs
              THEN call' = [call EXCEPT ![c].sent = @ + 1, ![c].worker = "read"]
              ELSE call' = [call EXCEPT ![c] =
                               FnReturn([@ EXCEPT !.sent = @ + 1], Nil, call[c].res,
                                        parent[c])]
    /\ UNCHANGED <<parent, top>>

\* The daemon answers the request it received
DaemonReply(c) ==
    /\ call[c].sent = 1
    /\ call[c].inbox = <<>>
    /\ call[c].data = <<>>
    /\ call[c].conn = "open"
    /\ call[c].pc \in {"wait", "read"}
    /\ \E p \in Replies(call[c].verb) :
         call' = [call EXCEPT ![c].inbox = <<p>>]
    /\ UNCHANGED <<parent, top>>

\* The worker in proto.Read(conn) and the rest of fn
WorkerRead(c) ==
    /\ call[c].worker = "read"
    /\ IF call[c].conn = "closed"
       THEN call' = [call EXCEPT ![c] =
                        FnReturn(@, Err("ClosedConn", <<>>), call[c].res, parent[c])]
       ELSE \/ /\ call[c].inbox # <<>>
               /\ LET data == Head(call[c].inbox)
                      r == Parse(call[c].verb, data)
                  IN call' = [call EXCEPT ![c] =
                                 FnReturn([@ EXCEPT !.inbox = <<>>, !.data = <<data>>],
                                          r.err, r.res, parent[c])]
            \/ /\ call[c].inbox = <<>>
               /\ call' = [call EXCEPT ![c] =
                              FnReturn(@, Err("IOError", <<>>), call[c].res, parent[c])]
    /\ UNCHANGED <<parent, top>>

\* The worker's cancel() after fn
WorkerCancel(c) ==
    /\ call[c].worker = "cancel"
    /\ call' = [call EXCEPT ![c].ctx = Cancel(@), ![c].worker = "done"]
    /\ UNCHANGED <<parent, top>>

\* Mutant: fn's error is returned as it is, also after a cancellation
DoResultVerbatim(err, ctxErr, closeError) ==
    IF err = Nil THEN closeError ELSE err

\* Mutant: the context's error is returned whenever the context is done
DoResultCtxFirst(err, ctxErr, closeError) ==
    LET e == IF ctxErr \in {"Canceled", "DeadlineExceeded"}
             THEN CtxError(ctxErr)
             ELSE err
    IN IF e = Nil THEN closeError ELSE e

\* After wg.Wait(): the error do returns, the deferred function included
DoResult(err, ctxErr, closeError) ==
    LET e == IF err # Nil /\ ctxErr \in {"Canceled", "DeadlineExceeded"}
             THEN CtxError(ctxErr)
             ELSE err
    IN IF e = Nil THEN closeError ELSE e

\* Mutant: do waits for the worker only
DoJoinWorkerOnly(c) ==
    /\ call[c].pc = "wait"
    /\ call[c].worker = "done"
    /\ call' = [call EXCEPT ![c].err = IF call[c].err # Nil
                                       THEN CtxError(call[c].ctx)
                                       ELSE call[c].closeError,
                            ![c].pc = "done"]
    /\ UNCHANGED <<parent, top>>

\* wg.Wait() returns when both tasks are done; do returns
DoJoin(c) ==
    /\ call[c].pc = "wait"
    /\ call[c].watcher = "done"
    /\ call[c].worker = "done"
    /\ call' = [call EXCEPT ![c].err = DoResult(call[c].err, call[c].ctx,
                                                call[c].closeError),
                            ![c].pc = "done"]
    /\ UNCHANGED <<parent, top>>

\* The caller's cancellation signal fires (a cancel, or a deadline)
FireCtx(c) ==
    /\ parent[c] = "nil"
    /\ top.pc # "done"
    /\ \E e \in {"Canceled", "DeadlineExceeded"} :
         /\ parent' = [parent EXCEPT ![c] = e]
         /\ call' = [call EXCEPT ![c].ctx = IF @ = "none" THEN @ ELSE Propagate(@, e)]
    /\ UNCHANGED top

-----------------------------------------------------------------------------
(* Error classification *)

\* mapError: the daemon's error text as a classified error
mapError(e) ==
    IF e.kind = "Text" /\ e.msg = TunnelText THEN Err("TunnelError", e.msg)
    ELSE IF e.kind = "Text" /\ e.msg = HostNotFoundText THEN Err("HostNotFoundError", e.msg)
    ELSE e

IsTunnelError(e) == mapError(e).kind = "TunnelError"
IsHostNotFoundError(e) == mapError(e).kind = "HostNotFoundError"

-----------------------------------------------------------------------------
(* dialer.DialContext: the connect handshake *)

\* d.client.dialContext(ctx)
ConnDial(c) ==
    /\ call[c].pc = "dial"
    /\ call[c].verb = "connect"
    /\ \E reachable \in BOOLEAN :
         IF reachable /\ parent[c] = "nil"
         THEN call' = [call EXCEPT ![c].conn = "open",
                                   ![c].opened = @ + 1,
                                   ![c].pc = "write"]
         ELSE call' = [call EXCEPT ![c].err = Err("DialError", <<>>),
                                   ![c].pc = "done"]
    /\ UNCHANGED <<parent, top>>

\* proto.Write(conn, "connect", d.slug, addr, timeout)
ConnWrite(c) ==
    /\ call[c].pc = "write"
    /\ \E ok \in BOOLEAN :
         IF ok
         THEN call' = [call EXCEPT ![c].sent = @ + 1, ![c].pc = "read"]
         ELSE call' = [call EXCEPT ![c].err = Err("IOError", <<>>), ![c].pc = "ret"]
    /\ UNCHANGED <<parent, top>>

\* The error of a connect reply
ConnectParse(data) == IF data # OK THEN mapError(Err("Text", data)) ELSE Nil

\* proto.Read(conn) and the check of the reply
ConnRead(c) ==
    /\ call[c].pc = "read"
    /\ \/ /\ call[c].inbox # <<>>
          /\ LET data == Head(call[c].inbox) IN
             call' = [call EXCEPT ![c].inbox = <<>>,
                                  ![c].data = <<data>>,
                                  ![c].err = ConnectParse(data),
                                  ![c].pc = "ret"]
       \/ /\ call[c].inbox = <<>>
          /\ call' = [call EXCEPT ![c].err = Err("IOError", <<>>), ![c].pc = "ret"]
    /\ UNCHANGED <<parent, top>>

\* Mutant: the failed handshake's connection is not closed
ConnDeferredNoClose(cl) ==
    IF cl.err # Nil
    THEN [cl EXCEPT !.handed = FALSE, !.pc = "done"]
    ELSE [cl EXCEPT !.handed = TRUE, !.pc = "done"]

\* The deferred function: what becomes of the connection for an error err
ConnDeferred(cl) ==
    IF cl.err # Nil
    THEN [cl EXCEPT !.conn = "closed", !.handed = FALSE, !.pc = "done"]
    ELSE [cl EXCEPT !.handed = TRUE, !.pc = "done"]

\* DialContext returns: the deferred function runs
ConnReturn(c) ==
    /\ call[c].pc = "ret"
    /\ call' = [call EXCEPT ![c] = ConnDeferred(@)]
    /\ UNCHANGED <<parent, top>>

-----------------------------------------------------------------------------
(* The operations that drive a call *)

Ops == {"Call", "Two", "Dialer", "WaitForTunnel", "WaitForHost", "Negotiate"}

\* The verb of each of the two concurrent calls: one that writes a request
\* and reads a reply
TwoVerbs == {"probe"}

\* The slots an operation uses
Slots == IF top.op = "Two" THEN Calls ELSE {"a"}

TopInit(op) ==
    [op |-> op, pc |-> IF op \in {"Call", "Two"} THEN "await" ELSE "start", err |-> Nil,
     probes |-> 0, script |-> <<>>, sigAtCall |-> "none", d |-> <<>>,
     panicked |-> FALSE, events |-> <<>>, client |-> "none", pinged |-> FALSE,
     resp |-> ZeroPing]

\* How often x occurs in the sequence s
RECURSIVE Count(_, _)
Count(s, x) ==
    IF s = <<>> THEN 0 ELSE (IF Head(s) = x THEN 1 ELSE 0) + Count(Tail(s), x)

\* A single call of a verb returns to its caller
CallReturn(c) ==
    /\ top.op = "Call"
    /\ top.pc = "await"
    /\ call[c].pc = "done"
    /\ top' = [top EXCEPT !.pc = "done", !.err = call[c].err]
    /\ UNCHANGED <<call, parent>>

\* Two concurrent calls on one client have both returned to their callers
TwoReturn ==
    /\ top.op = "Two"
    /\ top.pc = "await"
    /\ \A c \in Calls : call[c].pc = "done"
    /\ top' = [top EXCEPT !.pc = "done"]
    /\ UNCHANGED <<call, parent>>

(* Client.Dialer *)

\* c.Establish(ctx, org.Slug)
DialerCall(c) ==
    /\ top.op = "Dialer"
    /\ top.pc = "start"
    /\ call' = [call EXCEPT ![c] = NewCall("establish")]
    /\ top' = [top EXCEPT !.pc = "await"]
    /\ UNCHANGED parent

\* The rest of Dialer for Establish's (er, err); er = <<>> is the nil pointer,
\* whose fields cannot be read.
DialerResult(er, err) ==
    IF err # Nil
    THEN IF er = <<>>
         THEN [d |-> <<>>, err |-> err, panicked |-> TRUE]
         ELSE [d |-> <<"slug">> \o er, err |-> err, panicked |-> FALSE]
    ELSE [d |-> <<>>, err |-> err, panicked |-> FALSE]

DialerReturn(c) ==
    /\ top.op = "Dialer"
    /\ top.pc = "await"
    /\ call[c].pc = "done"
    /\ LET r == DialerResult(call[c].res, call[c].err) IN
       top' = [top EXCEPT !.pc = "done", !.d = r.d, !.err = r.err,
                          !.panicked = r.panicked]
    /\ UNCHANGED <<call, parent>>

(* Client.WaitForTunnel and Client.WaitForHost *)

WaitVerb(op) == IF op = "WaitForTunnel" THEN "probe" ELSE "resolve"

\* Mutant: the loop goes round again on every error
RetryableAnyError(op, e) == e # Nil

\* The loop's condition to go round again
Retryable(op, e) ==
    IF op = "WaitForTunnel"
    THEN IsTunnelError(e)
    ELSE IsTunnelError(e) \/ IsHostNotFoundError(e)

\* The loop calls Probe / Resolve: at its start, or when pause.For returns.
\* sigAtCall keeps the state of the caller's signal at the call.
WaitCall(c) ==
    /\ top.op \in {"WaitForTunnel", "WaitForHost"}
    /\ top.pc \in {"start", "pause"}
    /\ top.probes < MaxProbes
    /\ call' = [call EXCEPT ![c] = NewCall(WaitVerb(top.op))]
    /\ top' = [top EXCEPT !.pc = "await", !.probes = @ + 1,
                          !.sigAtCall = parent[c]]
    /\ UNCHANGED parent

\* Probe / Resolve returned: break, or pause.For(ctx, cycle)
WaitStep(c) ==
    /\ top.op \in {"WaitForTunnel", "WaitForHost"}
    /\ top.pc = "await"
    /\ call[c].pc = "done"
    /\ top' = [top EXCEPT !.script = Append(@, call[c].data),
                          !.err = call[c].err,
                          !.pc = IF Retryable(top.op, call[c].err)
                                 THEN "pause" ELSE "done"]
    /\ UNCHANGED <<call, parent>>

(* agent.Establish: the lifecycle negotiator *)

\* wireguard.PruneInvalidPeers(ctx, apiClient)
NegPrune ==
    /\ top.op = "Negotiate"
    /\ top.pc = "start"
    /\ \E ok \in BOOLEAN :
         top' = IF ok
                THEN [top EXCEPT !.pc = "default"]
                ELSE [top EXCEPT !.pc = "done", !.err = Err("PruneError", <<>>)]
    /\ UNCHANGED <<call, parent>>

\* DefaultClient(ctx): newClient pings the daemon
NegDefaultClient(c) ==
    /\ top.op = "Negotiate"
    /\ top.pc = "default"
    /\ call' = [call EXCEPT ![c] = NewCall("ping")]
    /\ top' = [top EXCEPT !.pc = "awaitDefault"]
    /\ UNCHANGED parent

\* newClient returns; with a client, Establish calls c.Ping(ctx)
NegDefaultReturn(c) ==
    /\ top.op = "Negotiate"
    /\ top.pc = "awaitDefault"
    /\ call[c].pc = "done"
    /\ IF call[c].err = Nil
       THEN /\ call' = [call EXCEPT ![c] = NewCall("ping")]
            /\ top' = [top EXCEPT !.pc = "awaitPing"]
       ELSE /\ top' = [top EXCEPT !.pc = "startDaemon"]
            /\ UNCHANGED call
    /\ UNCHANGED parent

\* buildinfo.Version().EQ(resp.Version)
VersionEQ(resp) == resp[1] = BuildVersion

\* Mutant: a daemon of another version is killed whatever its Background
NegDecideKillForeground(t, resp, err) ==
    IF err # Nil THEN [t EXCEPT !.pc = "startDaemon"]
    ELSE IF resp[1] = BuildVersion
    THEN [t EXCEPT !.pc = "done", !.client = "existing", !.resp = resp,
                   !.pinged = TRUE]
    ELSE [t EXCEPT !.pc = "kill", !.resp = resp, !.pinged = TRUE]

\* Mutant: a background daemon of another version is not killed before
\* the new daemon is started
NegDecideNoKill(t, resp, err) ==
    IF err # Nil THEN [t EXCEPT !.pc = "startDaemon"]
    ELSE IF resp[1] = BuildVersion
    THEN [t EXCEPT !.pc = "done", !.client = "existing", !.resp = resp,
                   !.pinged = TRUE]
    ELSE IF resp[2] # "bg"
    THEN [t EXCEPT !.pc = "done", !.client = "existing", !.resp = resp,
                   !.pinged = TRUE, !.events = Append(@, "warn")]
    ELSE [t EXCEPT !.pc = "startDaemon", !.resp = resp, !.pinged = TRUE]

\* Establish after c.Ping returned (resp, err): the next step and its effects
NegDecide(t, resp, err) ==
    IF err # Nil THEN [t EXCEPT !.pc = "startDaemon"]
    ELSE IF VersionEQ(resp)
    THEN [t EXCEPT !.pc = "done", !.client = "existing", !.resp = resp,
                   !.pinged = TRUE]
    ELSE IF resp[2] # "bg"
    THEN [t EXCEPT !.pc = "done", !.client = "existing", !.resp = resp,
                   !.pinged = TRUE, !.events = Append(@, "warn")]
    ELSE [t EXCEPT !.pc = "kill", !.resp = resp, !.pinged = TRUE]

NegPingReturn(c) ==
    /\ top.op = "Negotiate"
    /\ top.pc = "awaitPing"
    /\ call[c].pc = "done"
    /\ top' = NegDecide(top, call[c].res, call[c].err)
    /\ UNCHANGED <<call, parent>>

\* c.Kill(ctx)
NegKill(c) ==
    /\ top.op = "Negotiate"
    /\ top.pc = "kill"
    /\ call' = [call EXCEPT ![c] = NewCall("kill")]
    /\ top' = [top EXCEPT !.pc = "awaitKill", !.events = Append(@, "kill")]
    /\ UNCHANGED parent

\* errors.Wrap(err, "kill failed")
WrapKill(e) == Err("Wrap", <<"kill failed", e.kind>> \o e.msg)

\* Mutant: the error of Kill is dropped and the new daemon is started
NegKillReturnAnyway(c) ==
    /\ top.op = "Negotiate"
    /\ top.pc = "awaitKill"
    /\ call[c].pc = "done"
    /\ top' = [top EXCEPT !.pc = "sleep"]
    /\ UNCHANGED <<call, parent>>

\* Kill returned: the error is wrapped and returned, or the negotiator sleeps
NegKillReturn(c) ==
    /\ top.op = "Negotiate"
    /\ top.pc = "awaitKill"
    /\ call[c].pc = "done"
    /\ top' = IF call[c].err # Nil
              THEN [top EXCEPT !.pc = "done", !.err = WrapKill(call[c].err),
                               !.events = Append(@, "warn")]
              ELSE [top EXCEPT !.pc = "sleep"]
    /\ UNCHANGED <<call, parent>>

\* time.Sleep(1 * time.Second)
NegSleep ==
    /\ top.op = "Negotiate"
    /\ top.pc = "sleep"
    /\ top' = [top EXCEPT !.pc = "startDaemon"]
    /\ UNCHANGED <<call, parent>>

\* StartDaemon(ctx): a new daemon is started; it comes up, or it does not
NegStartDaemon ==
    /\ top.op = "Negotiate"
    /\ top.pc = "startDaemon"
    /\ \E up \in BOOLEAN :
         top' = IF up
                THEN [top EXCEPT !.pc = "done", !.client = "new",
                                 !.events = Append(@, "start")]
                ELSE [top EXCEPT !.pc = "done", !.err = Err("StartError", <<>>),
                                 !.events = Append(@, "start")]
    /\ UNCHANGED <<call, parent>>

-----------------------------------------------------------------------------
(* The specification *)

Init ==
    /\ parent = [c \in Calls |-> "nil"]
    /\ \E op \in Ops :
         /\ top = TopInit(op)
         /\ CASE op = "Call" ->
                   \E verb \in DoVerbs \cup {"connect"} :
                      call = [c \in Calls |-> IF c = "a" THEN NewCall(verb) ELSE IdleCall]
              [] op = "Two" ->
                   \E va \in TwoVerbs, vb \in TwoVerbs :
                      call = [c \in Calls |-> IF c = "a" THEN NewCall(va) ELSE NewCall(vb)]
              [] OTHER -> call = [c \in Calls |-> IdleCall]

Next ==
    \/ \E c \in Slots : DoDial(c)
    \/ \E c \in Slots : Watcher(c)
    \/ \E c \in Slots : WorkerWrite(c)
    \/ \E c \in Slots : DaemonReply(c)
    \/ \E c \in Slots : WorkerRead(c)
    \/ \E c \in Slots : WorkerCancel(c)
    \/ \E c \in Slots : DoJoin(c)
    \/ \E c \in Slots : FireCtx(c)
    \/ \E c \in Slots : ConnDial(c)
    \/ \E c \in Slots : ConnWrite(c)
    \/ \E c \in Slots : ConnRead(c)
    \/ \E c \in Slots : ConnReturn(c)
    \/ \E c \in Slots : CallReturn(c)
    \/ \E c \in Slots : DialerCall(c)
    \/ \E c \in Slots : DialerReturn(c)
    \/ \E c \in Slots : WaitCall(c)
    \/ \E c \in Slots : WaitStep(c)
    \/ TwoReturn
    \/ NegPrune
    \/ \E c \in Slots : NegDefaultClient(c)
    \/ \E c \in Slots : NegDefaultReturn(c)
    \/ \E c \in Slots : NegPingReturn(c)
    \/ \E c \in Slots : NegKill(c)
    \/ \E c \in Slots : NegKillReturn(c)
    \/ NegSleep
    \/ NegStartDaemon

Spec == Init /\ [][Next]_vars

\* A task blocked in I/O on a connection that has been closed is released
WorkerUnblocked(c) ==
    /\ call[c].conn = "closed"
    /\ (WorkerWrite(c) \/ WorkerRead(c))

\* The Go scheduler runs every task that can run: the watcher once its
\* context is done, the worker once its I/O is released, and the join.
SpecFair ==
    /\ Spec
    /\ \A c \in Calls :
         /\ WF_vars(Watcher(c))
         /\ WF_vars(WorkerUnblocked(c))
         /\ WF_vars(WorkerCancel(c))
         /\ WF_vars(DoJoin(c))

\* A task whose frame has arrived reads it
ReadDelivered(c) ==
    /\ call[c].inbox # <<>>
    /\ (WorkerRead(c) \/ ConnRead(c))

\* SpecFair, and every step of the client that needs nothing from outside
\* is taken: a frame that has arrived is read, DialContext's deferred
\* function runs. Nothing makes the daemon reply, a connection fail or the
\* caller's signal fire.
SpecLive ==
    /\ SpecFair
    /\ \A c \in Calls :
         /\ WF_vars(ReadDelivered(c))
         /\ WF_vars(ConnReturn(c))

\* SpecFair, and the sequential code of a poller and of do goes on: the
\* loop calls Probe / Resolve, the dial returns, the loop takes the result.
SpecWait ==
    /\ SpecFair
    /\ \A c \in Calls :
         /\ WF_vars(WaitCall(c))
         /\ WF_vars(DoDial(c))
         /\ WF_vars(WaitStep(c))

-----------------------------------------------------------------------------
(* Properties *)

\* A call through Client.do that has returned
DoDone(c) == call[c].verb \in DoVerbs /\ call[c].pc = "done"

\* C1 (as claimed): when the caller's signal never fired and fn returned an
\* error E, do returns exactly E.
C1_FnErrorVerbatim ==
    \A c \in Calls :
        (DoDone(c) /\ call[c].fnRet /\ call[c].fnErr # Nil /\ parent[c] = "nil")
            => call[c].err = call[c].fnErr

\* C2: once the caller's signal has fired during a call, the call returns;
\* and when fn's I/O was released by the closing of the connection, do
\* returns the signal's cancellation error, not fn's I/O error.
C2_CancelInFlightReturns ==
    /\ \A c \in Calls :
         (call[c].pc = "wait" /\ parent[c] # "nil") ~> (call[c].pc = "done")
    /\ [](\A c \in Calls :
            (DoDone(c) /\ call[c].fnErr.kind = "ClosedConn")
                => /\ parent[c] # "nil"
                   /\ call[c].err = CtxError(parent[c]))

C2_Witness ==
    \E c \in Calls :
        /\ DoDone(c)
        /\ call[c].verb = "probe"
        /\ call[c].sent = 1
        /\ call[c].fnErr.kind = "ClosedConn"
        /\ call[c].err = CtxError("DeadlineExceeded")

\* fn returned success while the caller's signal had not fired
FnOkBeforeSignal(c) ==
    DoDone(c) /\ call[c].fnRet /\ call[c].fnErr = Nil /\ call[c].sigAtRet = "nil"

\* C3 (as claimed): when fn returned success before the caller's signal
\* fired, do returns success.
C3_SuccessIsSuccess ==
    \A c \in Calls : FnOkBeforeSignal(c) => call[c].err = Nil

\* C3 (amended): when fn returned success before the caller's signal fired,
\* do returns the error of the watcher's Close, nil when the close
\* succeeded, and never a cancellation error, also when the signal fires
\* after fn returned.
C3_SuccessOrCloseError ==
    \A c \in Calls :
        FnOkBeforeSignal(c)
            => /\ call[c].err = call[c].closeError
               /\ ~IsCtxError(call[c].err)

C3_Witness ==
    \E c \in Calls :
        /\ FnOkBeforeSignal(c)
        /\ call[c].verb = "ping"
        /\ parent[c] = "Canceled"
        /\ call[c].ctx = "Canceled"
        /\ call[c].sigAtClose = "Canceled"
        /\ call[c].err = Nil

\* C4: when a call has returned, the connection it opened is closed, or it
\* is the connection handed to the caller of a successful Connect.
C4_NoOpenConnectionLeft ==
    \A c \in Calls :
        call[c].pc = "done"
            => /\ call[c].opened <= 1
               /\ (call[c].opened = 0) = (call[c].conn = "none")
               /\ call[c].verb \in DoVerbs => call[c].conn # "open"
               /\ call[c].verb = "connect"
                    => (call[c].conn = "open") = (call[c].handed /\ call[c].err = Nil)

C4_Witness ==
    \E c \in Calls :
        /\ DoDone(c)
        /\ call[c].verb = "instances"
        /\ call[c].opened = 1
        /\ call[c].conn = "closed"
        /\ call[c].fnErr.kind = "JSONSyntax" \/ call[c].fnErr.kind = "InvalidPrefix"

\* C5 (as claimed): Dialer returns a dialer exactly when Establish
\* succeeded, with its state and config, and never reads the fields of an
\* absent Establish result.
C5_DialerOnlyOnSuccess ==
    (top.op = "Dialer" /\ top.pc = "done")
        => /\ ~top.panicked
           /\ (top.d # <<>>) = (top.err = Nil)
           /\ top.d # <<>> => (top.d[2] # "nil" /\ top.d[3] # "nil")

\* C6: Connect opens one connection, sends the handshake on it and reads
\* the reply from it; on the reply "ok" it returns that connection open, on
\* anything else it closes it and returns an error; once Connect has
\* returned, nothing more is done with the connection.
C6_ConnectHandshake ==
    /\ [](\A c \in Calls :
            call[c].verb = "connect"
                => /\ call[c].opened <= 1
                   /\ call[c].sent <= call[c].opened
                   /\ Len(call[c].data) + Len(call[c].inbox) <= call[c].sent
                   /\ call[c].pc \in {"write", "read", "ret"} => call[c].conn = "open"
                   /\ (call[c].pc = "done" /\ call[c].data = <<OK>>)
                        => /\ call[c].conn = "open"
                           /\ call[c].handed
                           /\ call[c].err = Nil
                   /\ (call[c].pc = "done" /\ call[c].opened = 1
                       /\ call[c].data # <<OK>>)
                        => /\ call[c].conn = "closed"
                           /\ ~call[c].handed
                           /\ call[c].err # Nil)
    /\ [][\A c \in Calls :
            (call[c].verb = "connect" /\ call[c].pc = "done") => call'[c] = call[c]]_vars

C6_Witness ==
    \E c \in Calls :
        /\ call[c].verb = "connect"
        /\ call[c].pc = "done"
        /\ call[c].data = <<OK>>
        /\ call[c].conn = "open"
        /\ call[c].handed
        /\ top.pc = "done"

\* The replies the daemon gave to the poller's calls, one per call made,
\* when every call got one
Scripted == \A i \in 1..Len(top.script) : top.script[i] # <<>>
LastReply == Head(top.script[Len(top.script)])

\* A poller that returned with the signal never fired, every request
\* answered and every connection closed without error
WaitReturnedUndisturbed(op) ==
    /\ top.op = op
    /\ top.pc = "done"
    /\ \A c \in Calls : parent[c] = "nil" /\ call[c].closeError = Nil
    /\ top.script # <<>>
    /\ Scripted

\* C7 (as claimed): WaitForTunnel probes again exactly while the outcomes
\* are tunnel-not-ready and returns the first other outcome: after k
\* tunnel-not-ready replies and one other reply it has made k+1 requests and
\* returns that reply's outcome.
C7_WaitForTunnelRetries ==
    WaitReturnedUndisturbed("WaitForTunnel")
        => /\ top.probes = Len(top.script)
           /\ \A i \in 1..(Len(top.script) - 1) : top.script[i] = <<TunnelText>>
           /\ LastReply # TunnelText
           /\ LastReply = OK => top.err = Nil
           /\ LastReply = RemoteText => top.err = Err("Text", RemoteText)

\* C8 (as claimed): WaitForHost resolves again while the outcome is
\* tunnel-not-ready or host-not-found and returns the first other outcome
\* as it is.
C8_WaitForHostRetries ==
    WaitReturnedUndisturbed("WaitForHost")
        => /\ top.probes = Len(top.script)
           /\ \A i \in 1..(Len(top.script) - 1) :
                top.script[i] \in {<<TunnelText>>, <<HostNotFoundText>>}
           /\ LastReply \notin {TunnelText, HostNotFoundText}
           /\ LastReply = ResolvePayload => top.err = Nil
           /\ LastReply = RemoteText => ~IsCtxError(top.err)

C10_KeepsExistingDaemon ==
    (/\ top.op = "Negotiate"
     /\ top.pinged
     /\ (top.resp[1] = BuildVersion \/ top.resp[2] # "bg"))
        => /\ top.pc = "done"
           /\ top.client = "existing"
           /\ top.err = Nil
           /\ Count(top.events, "kill") = 0
           /\ Count(top.events, "start") = 0
           /\ Count(top.events, "warn") = (IF top.resp[1] # BuildVersion THEN 1 ELSE 0)

C10_Witness ==
    /\ top.op = "Negotiate"
    /\ top.pinged
    /\ top.resp = <<"v2", "fg">>
    /\ top.client = "existing"
    /\ top.events = <<"warn">>

\* The negotiator found a background daemon of another version
MismatchedBackground ==
    /\ top.op = "Negotiate"
    /\ top.pinged
    /\ top.resp[1] # BuildVersion
    /\ top.resp[2] = "bg"

\* C11: for a background daemon of another version exactly one Kill is
\* sent and, once it is acknowledged, exactly one daemon is started, after
\* the Kill; when no daemon answered the Ping, a daemon is started and no
\* Kill is sent.
C11_KillThenStart ==
    /\ MismatchedBackground
         => /\ Count(top.events, "kill") <= 1
            /\ Count(top.events, "start") <= 1
            /\ Count(top.events, "start") = 1 => top.events = <<"kill", "start">>
            /\ top.pc \notin {"kill"} => Count(top.events, "kill") = 1
            /\ (top.pc = "done" /\ top.err.kind # "Wrap")
                 => top.events = <<"kill", "start">>
    /\ (/\ top.op = "Negotiate"
        /\ ~top.pinged
        /\ top.pc = "done"
        /\ top.err.kind # "PruneError")
         => top.events = <<"start">>

C11_Witness ==
    /\ MismatchedBackground
    /\ top.pc = "done"
    /\ top.client = "new"
    /\ top.events = <<"kill", "start">>
    /\ \E c \in Calls : call[c].verb = "kill" /\ call[c].sent = 1 /\ call[c].err = Nil

\* A call of verb that returned with the signal never fired, the reply
\* data read and the connection closed without error
ReturnedWithReply(c, verb, data) ==
    /\ DoDone(c)
    /\ call[c].verb = verb
    /\ parent[c] = "nil"
    /\ call[c].closeError = Nil
    /\ call[c].data = <<data>>

\* C12 (as claimed): on the reply "ok " and a JSON body Establish returns
\* the result decoded from the body and a nil error; on a reply without
\* the prefix "ok " it returns no result and an error (that fn made of the
\* whole payload).
C12_EstablishParsesReply ==
    \A c \in Calls :
        /\ ReturnedWithReply(c, "establish", EstablishPayload)
             => (call[c].err = Nil /\ call[c].res = <<"st", "cf">>)
        /\ ReturnedWithReply(c, "establish", RemoteText)
             => /\ call[c].fnErr = Err("Text", RemoteText)
                /\ call[c].err # Nil
                /\ call[c].res = <<>>

\* The verbs the short fixed timeout is for
ShortVerbs == {"ping", "kill", "probe", "resolve", "connect"}

\* C13 (as claimed): a call of ping, kill, probe, resolve or connect whose
\* request has been sent returns, also when the caller's signal never
\* fires and the daemon never replies.
C13_ShortTimeoutAborts ==
    \A c \in Calls :
        (call[c].verb \in ShortVerbs /\ call[c].sent = 1 /\ parent[c] = "nil")
            ~> (call[c].pc = "done" \/ parent[c] # "nil")

\* C14 (as claimed): Resolve, on the reply "host not found" and with no
\* cancellation, returns an error classified as HostNotFoundError, not a
\* cancellation error.
C14_ResolveHostNotFound ==
    \A c \in Calls :
        ReturnedWithReply(c, "resolve", HostNotFoundText)
            => /\ IsHostNotFoundError(call[c].err)
               /\ ~IsCtxError(call[c].err)

\* C15: in a call of Establish or Instances the connection is closed only
\* after fn has returned or after the caller's signal has fired: while the
\* signal has not fired, the connection on which fn waits for the reply
\* stays open, and fn never sees it closed.
C15_LongCallsNotAborted ==
    \A c \in Calls :
        call[c].verb \in {"establish", "instances"}
            => /\ call[c].conn = "closed"
                    => (call[c].fnRet \/ call[c].sigAtClose \in {"Canceled", "DeadlineExceeded"})
               /\ (call[c].worker = "read" /\ parent[c] = "nil")
                    => call[c].conn = "open"
               /\ (call[c].fnRet /\ call[c].fnErr.kind = "ClosedConn")
                    => call[c].sigAtRet # "nil"

C15_Witness ==
    \E c \in Calls :
        /\ DoDone(c)
        /\ call[c].verb = "instances"
        /\ parent[c] = "nil"
        /\ call[c].data = <<InstancesPayload>>
        /\ call[c].res = <<"i1">>
        /\ call[c].conn = "closed"

\* C16: do returns only when the watcher and the worker have both
\* finished, and once fn has returned do returns: the worker's cancel()
\* ends the watcher, and the join follows.
C16_BothTasksAwaited ==
    /\ [](\A c \in Calls :
            (DoDone(c) /\ call[c].opened = 1)
                => (call[c].watcher = "done" /\ call[c].worker = "done"))
    /\ \A c \in Calls :
         (call[c].pc = "wait" /\ call[c].fnRet)
            ~> (call[c].pc = "done" /\ call[c].watcher = "done")

C16_Witness ==
    \E c \in Calls :
        /\ DoDone(c)
        /\ call[c].verb = "kill"
        /\ parent[c] = "nil"
        /\ call[c].ctx = "Canceled"
        /\ call[c].watcher = "done"
        /\ call[c].worker = "done"
        /\ call[c].err = Nil

\* C17 (as claimed): when the caller's signal has fired while Connect waits
\* for the daemon's reply, Connect returns.
C17_CancelReleasesConnect ==
    \A c \in Calls :
        (call[c].verb = "connect" /\ call[c].pc = "read" /\ parent[c] # "nil")
            ~> (call[c].pc = "done")

\* C18: a call of a verb opens at most one connection and writes at most
\* one request frame, on the connection it opened, whatever its outcome;
\* when the connection cannot be opened the call returns the dial error
\* and fn is not run.
C18_SingleAttempt ==
    \A c \in Calls :
        /\ call[c].opened <= 1
        /\ call[c].sent <= call[c].opened
        /\ (call[c].pc = "done" /\ call[c].opened = 0)
             => /\ call[c].err.kind = "DialError"
                /\ ~call[c].fnRet
                /\ call[c].worker = "none"
                /\ call[c].watcher = "none"
                /\ call[c].sent = 0
        /\ call[c].fnRet => call[c].opened = 1

C18_Witness ==
    \E c \in Calls :
        /\ DoDone(c)
        /\ call[c].verb = "resolve"
        /\ call[c].fnErr.kind = "IOError"
        /\ call[c].sent = 1
        /\ call[c].opened = 1
        /\ top.op = "Call"
        /\ top.pc = "done"

\* The negotiator's Kill has returned the error e
KillFailed(c) ==
    /\ top.op = "Negotiate"
    /\ top.pc \notin {"awaitKill"}
    /\ call[c].verb = "kill"
    /\ call[c].pc = "done"
    /\ call[c].err # Nil

\* C20: when Kill returned an error the negotiator has returned that
\* error wrapped as "kill failed", with no client, and has started no
\* daemon; a daemon is started at most once in a negotiation.
C20_KillFailureStopsNegotiation ==
    /\ top.op = "Negotiate" => Count(top.events, "start") <= 1
    /\ \A c \in Calls :
         KillFailed(c)
            => /\ top.pc = "done"
               /\ top.err = WrapKill(call[c].err)
               /\ top.client = "none"
               /\ Count(top.events, "start") = 0
               /\ top.events = <<"kill", "warn">>

C20_Witness ==
    \E c \in Calls :
        /\ KillFailed(c)
        /\ call[c].fnErr.kind = "IOError"
        /\ top.err = Err("Wrap", <<"kill failed", "Canceled">>)

\* What belongs to one call: its record (connection, tasks, result) and its
\* caller's signal
Own(c) == <<call[c], parent[c]>>

\* A call's connection is closed only once its own fn has returned or its
\* own caller's signal has fired, and without that signal the call neither
\* fails on a closed connection nor returns a context error of the caller.
OwnOutcome(c) ==
    /\ call[c].conn = "closed" => call[c].fnRet \/ parent[c] # "nil"
    /\ call[c].opened <= 1
    /\ parent[c] = "nil" =>
         /\ call[c].fnErr.kind # "ClosedConn"
         /\ call[c].err.kind # "DeadlineExceeded"
         /\ call[c].ctx # "DeadlineExceeded"

\* C19: two calls issued concurrently on the same client are independent.
\* Each opens one connection of its own; in every interleaving of the two
\* watchers and the two workers, a step that changes one call (its tasks,
\* its connection, its caller's signal, its result) leaves the other call's
\* record unchanged, and a call is closed or cancelled only by its own
\* completion or its own caller's signal.
C19_ConcurrentCallsIndependent ==
    /\ [](top.op = "Two" => \A c \in Calls : OwnOutcome(c))
    /\ [][top.op = "Two" =>
            \A c \in Calls : \A d \in Calls \ {c} :
               Own(d)' # Own(d) => Own(c)' = Own(c)]_vars

\* One of two concurrent calls was cancelled by its caller while it was in
\* flight and failed on its closed connection; the other, whose caller
\* never signalled, read its reply and returned success.
C19_Witness ==
    /\ top.op = "Two"
    /\ top.pc = "done"
    /\ parent["a"] = "Canceled"
    /\ call["a"].opened = 1
    /\ call["a"].fnErr.kind = "ClosedConn"
    /\ call["a"].err = CtxError("Canceled")
    /\ parent["b"] = "nil"
    /\ call["b"].opened = 1
    /\ call["b"].data = <<OK>>
    /\ call["b"].fnErr = Nil
    /\ call["b"].err = Nil

====
